---- MODULE Spec2Model ----
(***************************************************************************)
(* A model of the smol_world heap: the bump allocator and its header       *)
(* (DataWorld/Heap.cc, include/Heap.hh), the polymorphic value Val, and    *)
(* the copying garbage collector (GarbageCollector in DataWorld/Heap.cc    *)
(* and include/GarbageCollector.hh), its Handles, and the Vector and Dict  *)
(* of src/Collections.cc.                                                  *)
(*                                                                         *)
(* heaps[h] holds the fields of Heap object h, with _end and _cur kept as   *)
(* offsets from _base (capacity() and used()); mem[h] is the content of    *)
(* the bytes that h's _base points at.  Exchanging the pointers of two     *)
(* Heap objects therefore exchanges both their entries of heaps and of mem.*)
(***************************************************************************)
EXTENDS Integers, Naturals, Sequences, FiniteSets, TLC

VARIABLES heaps, mem, ext, pend, last, crashed, sCurHeap, scopes, cell,
          dict, stored, vec, handles, roots

vars == <<heaps, mem, ext, pend, last, crashed, sCurHeap, scopes, cell,
          dict, stored, vec, handles, roots>>

\* the collections studied on their own: the entries of one Dict, the values
\* its client stored under each key, and the slots of one Vector
collections == <<dict, stored, vec>>

\* the Handles of the thread and each heap's list of registered external roots
handleVars == <<handles, roots>>

\* the heaps and what refers into them, with the collections and the Handles
heapVars == <<heaps, mem, ext, pend, collections, roots, handles>>

\* the state the heap operations leave alone: the thread's current-heap slot,
\* its open UsingHeap scopes, a Val cell, the collections and the Handles
outside == <<sCurHeap, scopes, cell, collections, handleVars>>

----------------------------------------------------------------------------
(* Program constants *)

\* sizeof(Header): uint32_t magic + Val root
HeaderSize == 8

\* static constexpr uint32_t kMagic = 0xD217904A, as its high and low 16 bits
\* (0xD217, 0x904A)
kMagic == <<53783, 36938>>

\* a header that does not start with the magic number
BadMagic == <<0, 0>>

\* bytes of a (small) block header in front of the payload
BlockHeaderSize == 2

\* sizeof(Val): one uintpos
ValSize == 4

(* Bounds of the model *)

\* bytes after the header in the larger heaps
ArenaSize == 14

\* bytes after the header in the smaller heaps
SmallArena == 7

\* most blocks a client allocates in one heap
MaxBlocks == 2

\* byte lengths of the raw payloads a client allocates
DataSizes == {1, 2}

\* slot counts of the arrays a client allocates
SlotCounts == {1, 2}

\* most calls of the alloc-failure handler within one alloc
MaxHandlerCalls == 2

HeapIds == {1, 2}

Capacities == {HeaderSize + SmallArena, HeaderSize + ArenaSize}

\* the external root cells (Handles) a client keeps
Cells == {1}

----------------------------------------------------------------------------
(* Val: a tag and a number (the integer, or the position of the block) *)

ObjTypes == {"Float", "BigInt", "String", "Symbol", "Blob", "Array", "Vector", "Dict"}

NullVal == [tag |-> "Null", v |-> 0]

IntVal(i) == [tag |-> "Int", v |-> i]

ObjVal(t, p) == [tag |-> t, v |-> p]

ValIsObject(val) == val.tag \in ObjTypes

asPos(val) == val.v

----------------------------------------------------------------------------
(* Blocks and memory regions *)

NoBlocks == [p \in {} |-> 0]

NewBlock(t, data, slots) == [type |-> t, data |-> data, slots |-> slots, fwd |-> 0]

\* a Dict's slots are entries of two Vals, key and value
DictEntry(key, value) == [key |-> key, value |-> value]

NullEntry == DictEntry(NullVal, NullVal)

SlotSize(t) == IF t = "Dict" THEN 2 * ValSize ELSE ValSize

\* header plus payload: bytes for raw blocks, Vals for arrays, entries for dicts
BlockSize(b) == BlockHeaderSize + Len(b.data) + SlotSize(b.type) * Len(b.slots)

NullSlots(n) == [i \in 1..n |-> NullVal]

Fill(n, byte) == [i \in 1..n |-> byte]

\* f with x mapped to y, x added to the domain when it is new
Put(f, x, y) == [z \in (DOMAIN f) \union {x} |-> IF z = x THEN y ELSE f[z]]

----------------------------------------------------------------------------
(* Heap accessors *)

used(hp) == hp.cur

capacity(hp) == hp.end

remaining(hp) == hp.end - hp.cur

validPos(hp, pos) == pos >= HeaderSize /\ pos < used(hp)

root(h) == mem[h].root

blocksOf(h) == mem[h].blocks

\* the test with an end that is one byte too far
FitsOffByOne(hp, size) == hp.cur + size <= hp.end + 1

\* the test of rawAlloc's loop body: newCur <= _end
Fits(hp, size) == hp.cur + size <= hp.end

\* Heap(base, capacity, malloced) followed by reset()
FreshHeap(cap, malloced) ==
    [end |-> cap, cur |-> HeaderSize, malloced |-> malloced, handler |-> FALSE]

EmptyMem == [magic |-> kMagic, root |-> NullVal, blocks |-> NoBlocks]

None == [h |-> 0, block |-> NewBlock("Blob", <<>>, <<>>), calls |-> 0]

\* a Val cell nothing was assigned to
NoCell == [off |-> 0, val |-> <<0, 0>>, op |-> "none"]

\* the operation that ran last, on which heap, and what it returned
Did(op, h, res) == [op |-> op, h |-> h, res |-> res]

----------------------------------------------------------------------------
\* Heap 1 is the client's heap, built over a buffer of its own; heap 2 is a
\* second, malloc-owned heap the client keeps as a destination.
Init ==
    /\ heaps = [h \in HeapIds |->
                  IF h = 1 THEN FreshHeap(HeaderSize + ArenaSize, FALSE)
                           ELSE FreshHeap(HeaderSize + SmallArena, TRUE)]
    /\ mem = [h \in HeapIds |-> EmptyMem]
    /\ ext = [c \in Cells |-> [heap |-> 0, val |-> NullVal]]
    /\ pend = None
    /\ last = Did("init", 0, 0)
    /\ crashed = FALSE
    /\ sCurHeap = 0
    /\ scopes = <<>>
    /\ cell = NoCell
    /\ dict = <<>>
    /\ stored = [k \in {} |-> 0]
    /\ vec = <<>>
    /\ handles = [c \in Cells |-> [alive |-> FALSE, heap |-> 0]]
    /\ roots = [h \in HeapIds |-> {}]

Idle == ~crashed /\ pend.h = 0

----------------------------------------------------------------------------
(* Heap::reset *)

\* a reset that writes the header and leaves the cursor where it was
ResetKeepsCursor(hp) == hp

ResetHeap(hp) == [hp EXCEPT !.cur = HeaderSize]

ResetOK(hp) == Fits([hp EXCEPT !.cur = 0], HeaderSize)

Reset(h) ==
    /\ Idle
    /\ IF ResetOK(heaps[h])
         THEN /\ heaps' = [heaps EXCEPT ![h] = ResetHeap(@)]
              /\ mem' = [mem EXCEPT ![h] = EmptyMem]
              /\ crashed' = FALSE
         ELSE /\ UNCHANGED <<heaps, mem>>
              /\ crashed' = TRUE
    /\ last' = Did("reset", h, 0)
    /\ UNCHANGED <<ext, pend>>
    /\ UNCHANGED outside

----------------------------------------------------------------------------
(* Heap::rawAlloc, and the object creators layered over it *)

\* a cursor that stops one byte short of the end of the block
BumpShort(hp, size) == [hp EXCEPT !.cur = hp.cur + size - 1]

\* the block is placed at the old cursor and the cursor moves past it
Bump(hp, size) == [hp EXCEPT !.cur = hp.cur + size]

PlaceBlock(m, pos, blk) == [m EXCEPT !.blocks = Put(m.blocks, pos, blk)]

\* one pass of rawAlloc's loop on heap h with the heap table hs and memory ms:
\* either the block fits and is placed, or the handler is consulted, or nullptr
TryAlloc(hs, ms, h, blk, calls) ==
    LET hp   == hs[h]
        size == BlockSize(blk)
    IN  IF Fits(hp, size)
          THEN /\ heaps' = [hs EXCEPT ![h] = Bump(hp, size)]
               /\ mem' = [ms EXCEPT ![h] = PlaceBlock(@, hp.cur, blk)]
               /\ pend' = None
               /\ last' = Did("alloc", h, hp.cur)
          ELSE IF hp.handler
          THEN /\ heaps' = hs
               /\ mem' = ms
               /\ pend' = [h |-> h, block |-> blk, calls |-> calls + 1]
               /\ last' = Did("handler", h, 0)
          ELSE /\ heaps' = hs
               /\ mem' = ms
               /\ pend' = None
               /\ last' = Did("alloc", h, 0)

BlockCount(h) == Cardinality(DOMAIN blocksOf(h))

\* the client allocates a block and initialises its payload
Alloc(h, blk) ==
    /\ Idle
    /\ BlockCount(h) < MaxBlocks \/ (~Fits(heaps[h], BlockSize(blk)) /\ ~heaps[h].handler)
    /\ TryAlloc(heaps, mem, h, blk, 0)
    /\ UNCHANGED <<ext, crashed>>
    /\ UNCHANGED outside

\* the payload a client writes into its k-th block
RawBlock(t, n, k) == NewBlock(t, Fill(n, k), <<>>)

SlotBlock(t, n) ==
    NewBlock(t, <<>>, IF t = "Dict" THEN [i \in 1..n |-> NullEntry] ELSE NullSlots(n))

setAllocFailureHandler(h, on) ==
    /\ Idle
    /\ heaps[h].handler # on
    /\ heaps' = [heaps EXCEPT ![h].handler = on]
    /\ last' = Did("write", h, 0)
    /\ UNCHANGED <<mem, ext, pend, crashed>>
    /\ UNCHANGED outside

\* a loop that calls the handler again after it has returned false
HandlerFalseCalledAgain ==
    /\ ~crashed
    /\ pend.h # 0
    /\ pend.calls < MaxHandlerCalls
    /\ pend' = [pend EXCEPT !.calls = @ + 1]
    /\ last' = Did("handler", pend.h, 0)
    /\ UNCHANGED <<heaps, mem, ext, crashed>>
    /\ UNCHANGED outside

\* the handler gives up: rawAlloc leaves its loop and returns nullptr
HandlerFalse ==
    /\ ~crashed
    /\ pend.h # 0
    /\ pend' = None
    /\ last' = Did("alloc", pend.h, 0)
    /\ UNCHANGED <<heaps, mem, ext, crashed>>
    /\ UNCHANGED outside

----------------------------------------------------------------------------
(* Heap::resize *)

\* a resize that lets a malloc-owned heap grow
ResizeGrowsMalloced(hp, newSize) == ~(newSize < used(hp))

ResizeOK(hp, newSize) == ~(newSize < used(hp)) /\ ~(newSize > capacity(hp) /\ hp.malloced)

ResizeHeap(hp, newSize) == IF ResizeOK(hp, newSize) THEN [hp EXCEPT !.end = newSize] ELSE hp

ResizeSizes == {HeaderSize} \union Capacities

Resize(h, newSize) ==
    /\ Idle
    /\ heaps' = [heaps EXCEPT ![h] = ResizeHeap(@, newSize)]
    /\ last' = Did("resize", h, IF ResizeOK(heaps[h], newSize) THEN 1 ELSE 0)
    /\ UNCHANGED <<mem, ext, pend, crashed>>
    /\ UNCHANGED outside

\* the handler grows the heap and asks for a retry
HandlerGrow(newSize) ==
    /\ ~crashed
    /\ pend.h # 0
    /\ pend.calls < MaxHandlerCalls \/ newSize - heaps[pend.h].cur >= BlockSize(pend.block)
    /\ newSize > capacity(heaps[pend.h])
    /\ ResizeOK(heaps[pend.h], newSize)
    /\ TryAlloc([heaps EXCEPT ![pend.h] = ResizeHeap(@, newSize)], mem,
                pend.h, pend.block, pend.calls)
    /\ UNCHANGED <<ext, crashed>>
    /\ UNCHANGED outside

\* the handler frees nothing and still asks for a retry
HandlerRetry ==
    /\ ~crashed
    /\ pend.h # 0
    /\ pend.calls < MaxHandlerCalls
    /\ TryAlloc(heaps, mem, pend.h, pend.block, pend.calls)
    /\ UNCHANGED <<ext, crashed>>
    /\ UNCHANGED outside

----------------------------------------------------------------------------
(* Heap::existing *)

\* the bytes base..base+n of a region, copied to a fresh buffer
Serialized(m, n) ==
    [m EXCEPT !.blocks = [p \in {q \in DOMAIN m.blocks : q < n} |-> m.blocks[p]]]

\* an adoption that checks the magic number only
ExistingMagicOnly(m, usedArg) == IF m.magic # kMagic THEN 0 ELSE 2

\* 2 = the heap is returned, 1 = bad root offset, 0 = wrong magic number
ExistingResult(m, usedArg) ==
    IF m.magic # kMagic THEN 0
    ELSE IF ValIsObject(m.root) /\ (asPos(m.root) < HeaderSize \/ asPos(m.root) >= usedArg) THEN 1
    ELSE 2

ExistingHeap(usedArg, cap) ==
    [end |-> cap, cur |-> usedArg, malloced |-> FALSE, handler |-> FALSE]

UsedArgs(src, cap) == {HeaderSize, used(heaps[src]), cap + 1}

\* heap object h is replaced by the adoption of a copy of src's bytes
Existing(h, src, usedArg, cap, magic) ==
    LET bytes == [Serialized(mem[src], used(heaps[src])) EXCEPT !.magic = magic]
        res   == ExistingResult(bytes, usedArg)
    IN  /\ Idle
        /\ \A c \in Cells : ext[c].heap # h
        /\ IF res = 2
             THEN /\ heaps' = [heaps EXCEPT ![h] = ExistingHeap(usedArg, cap)]
                  /\ mem' = [mem EXCEPT ![h] = Serialized(bytes, usedArg)]
             ELSE UNCHANGED <<heaps, mem>>
        /\ last' = Did("existing", h, res)
        /\ UNCHANGED <<ext, pend, crashed>>
        /\ UNCHANGED outside

----------------------------------------------------------------------------
(* GarbageCollector *)

\* The collector's working state: the from-heap's blocks (their forwarding
\* slots are written during the scan), the to-heap's cursor, end and blocks,
\* and whether the collector is still running (abort() ends the process).
GCState(fromBlocks, toHp) ==
    [from |-> fromBlocks, cur |-> toHp.cur, end |-> toHp.end, to |-> NoBlocks, ok |-> TRUE]

Scanned(st, val) == [st |-> st, val |-> val]

getForwardingAddress(blk) == blk.fwd

\* a forwarding slot that records the block's own position
setForwardingToSource(st, pos, fwd) == [st EXCEPT !.from[pos].fwd = pos]

setForwardingAddress(st, pos, fwd) == [st EXCEPT !.from[pos].fwd = fwd]

\* String::create / Array::create in the to-heap: a block at the to-heap's cursor
CreateIn(st, blk) ==
    [st EXCEPT !.to = Put(st.to, st.cur, blk), !.cur = st.cur + BlockSize(blk)]

SetDstSlot(st, pos, i, val) == [st EXCEPT !.to[pos].slots[i] = val]

\* case ValType::String
ScanString(st, val) ==
    LET str == st.from[asPos(val)]
        fwd == getForwardingAddress(str)
        dst == st.cur
    IN  IF fwd # 0
          THEN Scanned(st, ObjVal("String", fwd))
          ELSE Scanned(setForwardingAddress(CreateIn(st, NewBlock("String", str.data, <<>>)),
                                            asPos(val), dst),
                       ObjVal("String", dst))

RECURSIVE scanValue(_, _)
RECURSIVE ScanSlots(_, _, _, _)

\* the loop of case ValType::Array: (*dstArray)[i] = scanValue(*iter)
ScanSlots(st, src, dst, i) ==
    IF ~st.ok \/ i > Len(st.from[src].slots)
      THEN st
      ELSE LET r == scanValue(st, st.from[src].slots[i])
           IN  ScanSlots(IF r.st.ok THEN SetDstSlot(r.st, dst, i, r.val) ELSE r.st,
                         src, dst, i + 1)

\* case ValType::Array
ScanArray(st, val) ==
    LET array == st.from[asPos(val)]
        fwd   == getForwardingAddress(array)
        dst   == st.cur
    IN  IF fwd # 0
          THEN Scanned(st, ObjVal("Array", fwd))
          ELSE Scanned(ScanSlots(setForwardingAddress(
                                     CreateIn(st, SlotBlock("Array", Len(array.slots))),
                                     asPos(val), dst),
                                 asPos(val), dst, 1),
                       ObjVal("Array", dst))

\* val.asString(&_fromHeap) / val.asArray(&_fromHeap) translate the position with
\* Heap::at, which asserts that it is valid
Deref(st, val) == asPos(val) \in DOMAIN st.from

Abort(st, val) == Scanned([st EXCEPT !.ok = FALSE], val)

scanValue(st, val) ==
    IF ~st.ok THEN Scanned(st, val)
    ELSE CASE val.tag = "String" -> IF Deref(st, val) THEN ScanString(st, val) ELSE Abort(st, val)
           [] val.tag = "Array"  -> IF Deref(st, val) THEN ScanArray(st, val) ELSE Abort(st, val)
           [] val.tag = "Dict"   -> Abort(st, val)
           [] OTHER              -> Scanned(st, val)

\* scanRoot: _toHeap.setRoot(scanValue(_fromHeap.root()))
scanRoot(fromMem, toHp) == scanValue(GCState(fromMem.blocks, toHp), fromMem.root)

\* the to-heap's bytes once the scan is over
ToMem(r) == [magic |-> kMagic, root |-> r.val, blocks |-> r.st.to]

\* a destructor that resets the from-heap and forgets the swap
NoSwap(hs, a, b) == hs

\* ~GarbageCollector: _fromHeap.reset(); std::swap(_fromHeap, _toHeap)
SwapHeaps(hs, a, b) == [hs EXCEPT ![a] = hs[b], ![b] = hs[a]]

\* GarbageCollector::run(heap, otherHeap) / Heap::garbageCollectTo:
\* the heap table and the memory it leaves, or ok = FALSE when it aborted.
\* After the swap object `from` points at the bytes that were the to-heap's.
Collect(hs, ms, from, to) ==
    LET r == scanRoot(ms[from], ResetHeap(hs[to]))
    IN  [ok    |-> r.st.ok,
         heaps |-> SwapHeaps([hs EXCEPT ![to].cur = r.st.cur, ![from] = ResetHeap(@)],
                             from, to),
         mem   |-> [ms EXCEPT ![from] = ToMem(r), ![to] = EmptyMem]]

\* GarbageCollector::run(heap): the to-heap is a temporary Heap(heap.capacity()),
\* destroyed, with the bytes it then points at, when the collector goes out of scope
CollectTemp(hs, ms, from) ==
    LET toHp == FreshHeap(capacity(hs[from]), TRUE)
        r    == scanRoot(ms[from], toHp)
    IN  [ok    |-> r.st.ok,
         heaps |-> [hs EXCEPT ![from] = [toHp EXCEPT !.cur = r.st.cur]],
         mem   |-> [ms EXCEPT ![from] = ToMem(r)]]

\* a collection ends either with the swapped heaps or with the process aborted
Finish(g) ==
    IF g.ok
      THEN heaps' = g.heaps /\ mem' = g.mem /\ crashed' = FALSE
      ELSE UNCHANGED <<heaps, mem>> /\ crashed' = TRUE

GarbageCollect(from, to) ==
    /\ Idle
    /\ from # to
    /\ capacity(heaps[to]) >= used(heaps[from])
    /\ \A c \in Cells : ext[c].heap # to
    /\ Finish(Collect(heaps, mem, from, to))
    /\ last' = Did("gc", from, to)
    /\ UNCHANGED <<ext, pend>>
    /\ UNCHANGED outside

GarbageCollectTemp(from) ==
    /\ Idle
    /\ Finish(CollectTemp(heaps, mem, from))
    /\ last' = Did("gc", from, 0)
    /\ UNCHANGED <<ext, pend>>
    /\ UNCHANGED outside

\* the handler collects the heap into a temporary heap and asks for a retry
HandlerCollect ==
    LET g == CollectTemp(heaps, mem, pend.h)
    IN  /\ ~crashed
        /\ pend.h # 0
        /\ pend.calls < MaxHandlerCalls
        /\ IF g.ok
             THEN TryAlloc(g.heaps, g.mem, pend.h, pend.block, pend.calls) /\ crashed' = FALSE
             ELSE UNCHANGED <<heaps, mem, pend, last>> /\ crashed' = TRUE
        /\ UNCHANGED ext
        /\ UNCHANGED outside

----------------------------------------------------------------------------
(* The client's writes into its heap, and its external roots *)

\* the values a client can store: inline ones and references to blocks it holds
BlockRefs(h) == {ObjVal(blocksOf(h)[p].type, p) : p \in DOMAIN blocksOf(h)}

ClientVals(h) == {NullVal, IntVal(1)} \union BlockRefs(h)

setRoot(h, val) ==
    /\ Idle
    /\ root(h) # val
    /\ mem' = [mem EXCEPT ![h].root = val]
    /\ last' = Did("write", h, 0)
    /\ UNCHANGED <<heaps, ext, pend, crashed>>
    /\ UNCHANGED outside

\* array[i] = val
SetSlot(h, pos, i, val) ==
    /\ Idle
    /\ pos \in DOMAIN blocksOf(h)
    /\ blocksOf(h)[pos].type = "Array"
    /\ i \in 1..Len(blocksOf(h)[pos].slots)
    /\ blocksOf(h)[pos].slots[i] # val
    /\ mem' = [mem EXCEPT ![h].blocks[pos].slots[i] = val]
    /\ last' = Did("write", h, 0)
    /\ UNCHANGED <<heaps, ext, pend, crashed>>
    /\ UNCHANGED outside

----------------------------------------------------------------------------
(* Dict (Collections.cc) *)

\* ValBase32::block(): the address of the block a Val refers to, nullptr (0)
\* for an inline Val; within one heap addresses are ordered as positions
block(val) == IF ValIsObject(val) THEN asPos(val) ELSE 0

\* keyValueCmp(DictEntry const& a, Block const* b): reverse order
keyValueCmp(a, b) == block(a.key) > b

\* std::lower_bound(first, last, key, keyValueCmp) on entries[first+1 .. first+count]
RECURSIVE LowerBound(_, _, _, _)
\* a search that always answers the end of the range
LowerBoundEnd(entries, first, count, key) == first + count

LowerBound(entries, first, count, key) ==
    IF count <= 0 THEN first
    ELSE LET step == count \div 2
             it   == first + step
         IN  IF keyValueCmp(entries[it + 1], key)
               THEN LowerBound(entries, it + 1, count - (step + 1), key)
               ELSE LowerBound(entries, first, step, key)

\* the index (from 1) of the entry found, Len(entries) + 1 for all.end()
findEntry(entries, key) == LowerBound(entries, 0, Len(entries), key) + 1

\* a set that moves no entry up
ShiftUpNothing(entries, ep) == entries

\* the loop of Dict::set: for (p = all.end()-1; p > ep; --p) p[0] = std::move(p[-1])
ShiftUp(entries, ep) ==
    [i \in 1..Len(entries) |-> IF i > ep THEN entries[i - 1] ELSE entries[i]]

\* a set that stores a new key in the last entry, wherever it belongs
DictSetAtBack(entries, key, value, insertOnly) ==
    IF \E i \in DOMAIN entries : entries[i].key = key
      THEN [ok |-> ~insertOnly,
            entries |-> [i \in DOMAIN entries |->
                           IF entries[i].key = key /\ ~insertOnly
                             THEN DictEntry(key, value) ELSE entries[i]]]
    ELSE IF Len(entries) > 0 /\ entries[Len(entries)].key = NullVal
      THEN [ok |-> TRUE, entries |-> [entries EXCEPT ![Len(entries)] = DictEntry(key, value)]]
    ELSE [ok |-> FALSE, entries |-> entries]

\* Dict::set: whether it stored the value, and the entries it leaves
DictSet(entries, key, value, insertOnly) ==
    LET ep == findEntry(entries, block(key))
    IN  IF ep = Len(entries) + 1
          THEN [ok |-> FALSE, entries |-> entries]
        ELSE IF entries[ep].key = key
          THEN IF insertOnly
                 THEN [ok |-> FALSE, entries |-> entries]
                 ELSE [ok |-> TRUE, entries |-> [entries EXCEPT ![ep].value = value]]
        ELSE IF entries[Len(entries)].key = NullVal
          THEN [ok |-> TRUE,
                entries |-> [ShiftUp(entries, ep) EXCEPT ![ep] = DictEntry(key, value)]]
        ELSE [ok |-> FALSE, entries |-> entries]

\* dict->set(key, value) on a dict of the heap
SetEntry(h, pos, key, value) ==
    LET r == DictSet(blocksOf(h)[pos].slots, key, value, FALSE)
    IN  /\ Idle
        /\ pos \in DOMAIN blocksOf(h)
        /\ blocksOf(h)[pos].type = "Dict"
        /\ key.tag = "Symbol"
        /\ r.entries # blocksOf(h)[pos].slots
        /\ mem' = [mem EXCEPT ![h].blocks[pos].slots = r.entries]
        /\ last' = Did("write", h, 0)
        /\ UNCHANGED <<heaps, ext, pend, crashed>>
        /\ UNCHANGED outside

\* Handle construction: the cell holds the object and is registered with the heap
registerExternalRoot(c, h, val) ==
    /\ Idle
    /\ ext[c].heap = 0
    /\ ValIsObject(val)
    /\ ext' = [ext EXCEPT ![c] = [heap |-> h, val |-> val]]
    /\ last' = Did("write", h, 0)
    /\ UNCHANGED <<heaps, mem, pend, crashed>>
    /\ UNCHANGED outside

\* Handle destruction
unregisterExternalRoot(c) ==
    /\ Idle
    /\ ext[c].heap # 0
    /\ ext' = [ext EXCEPT ![c] = [heap |-> 0, val |-> NullVal]]
    /\ last' = Did("write", ext[c].heap, 0)
    /\ UNCHANGED <<heaps, mem, pend, crashed>>
    /\ UNCHANGED outside

----------------------------------------------------------------------------
(* The heap as a byte arena: blobs in two heaps, every Heap operation *)

Next ==
    \/ \E n \in DataSizes : Alloc(1, RawBlock("Blob", n, BlockCount(1) + 1))
    \/ Reset(1)
    \/ \E n \in ResizeSizes : Resize(1, n)
    \/ \E on \in BOOLEAN : setAllocFailureHandler(1, on)
    \/ HandlerFalse
    \/ HandlerRetry
    \/ \E n \in Capacities : HandlerGrow(n)
    \/ HandlerCollect
    \/ \E val \in {NullVal} \union BlockRefs(1) : setRoot(1, val)
    \/ GarbageCollectTemp(1)
    \/ \E cap \in Capacities, magic \in {kMagic, BadMagic} :
         \E u \in UsedArgs(1, cap) : Existing(1, 1, u, cap, magic)

Spec == Init /\ [][Next]_vars

----------------------------------------------------------------------------
(* The heap as an object graph: typed blocks, references, both collectors *)

\* the blocks a client creates: strings, symbols, blobs, arrays and dicts (the
\* collector treats Float, BigInt and Vector blocks as it treats a Blob)
NewBlocks(k) ==
    {RawBlock(t, n, k) : t \in {"String", "Blob"}, n \in DataSizes}
      \union {RawBlock("Symbol", 1, k)}
      \union {SlotBlock("Array", n) : n \in SlotCounts}
      \union {SlotBlock("Dict", 1)}

NextGC ==
    \/ \E blk \in NewBlocks(BlockCount(1) + 1) : Alloc(1, blk)
    \/ \E val \in ClientVals(1) : setRoot(1, val)
    \/ \E pos \in DOMAIN blocksOf(1), i \in SlotCounts :
         \E val \in ClientVals(1) : SetSlot(1, pos, i, val)
    \/ \E pos \in DOMAIN blocksOf(1) :
         \E key \in BlockRefs(1), val \in ClientVals(1) : SetEntry(1, pos, key, val)
    \/ GarbageCollect(1, 2)
    \/ GarbageCollectTemp(1)

SpecGC == Init /\ [][NextGC]_vars

----------------------------------------------------------------------------
(* External roots: Handles over a heap of strings and arrays *)

NextRoots ==
    \/ \E blk \in {RawBlock("String", 1, BlockCount(1) + 1), SlotBlock("Array", 1)} :
         Alloc(1, blk)
    \/ \E val \in ClientVals(1) : setRoot(1, val)
    \/ \E pos \in DOMAIN blocksOf(1) : \E val \in BlockRefs(1) : SetSlot(1, pos, 1, val)
    \/ \E c \in Cells : \E val \in BlockRefs(1) : registerExternalRoot(c, 1, val)
    \/ \E c \in Cells : unregisterExternalRoot(c)
    \/ GarbageCollect(1, 2)
    \/ GarbageCollectTemp(1)

SpecRoots == Init /\ [][NextRoots]_vars

----------------------------------------------------------------------------
(* The thread's current heap: Heap::enter, Heap::exit, UsingHeap *)

\* most UsingHeap objects alive at once
MaxScopes == 2

\* an enter that takes the slot whatever it holds
EnterUnchecked(curHeap) == TRUE

\* assert(!sCurHeap)
EnterOK(curHeap) == curHeap = 0

\* assert(sCurHeap == this)
ExitOK(curHeap, h) == curHeap = h

\* Heap::enter: sCurHeap = this
Enter(h) ==
    /\ ~crashed
    /\ IF EnterOK(sCurHeap)
         THEN sCurHeap' = h /\ crashed' = FALSE
         ELSE sCurHeap' = sCurHeap /\ crashed' = TRUE
    /\ last' = Did("enter", h, sCurHeap)
    /\ UNCHANGED <<scopes, cell>>
    /\ UNCHANGED heapVars

\* Heap::exit(): sCurHeap = nullptr
Exit(h) ==
    /\ ~crashed
    /\ IF ExitOK(sCurHeap, h)
         THEN sCurHeap' = 0 /\ crashed' = FALSE
         ELSE sCurHeap' = sCurHeap /\ crashed' = TRUE
    /\ last' = Did("exit", h, sCurHeap)
    /\ UNCHANGED <<scopes, cell>>
    /\ UNCHANGED heapVars

\* UsingHeap u(heap): _prev = heap->enter()
UsingHeapOpen(h) ==
    /\ ~crashed
    /\ Len(scopes) < MaxScopes
    /\ IF EnterOK(sCurHeap)
         THEN /\ sCurHeap' = h
              /\ scopes' = Append(scopes, [heap |-> h, prev |-> sCurHeap])
              /\ crashed' = FALSE
         ELSE /\ UNCHANGED <<sCurHeap, scopes>>
              /\ crashed' = TRUE
    /\ last' = Did("open", h, sCurHeap)
    /\ UNCHANGED cell
    /\ UNCHANGED heapVars

\* ~UsingHeap of the innermost scope: _heap->exit(_prev)
UsingHeapClose ==
    /\ ~crashed
    /\ scopes # <<>>
    /\ LET u == scopes[Len(scopes)]
       IN  /\ IF ExitOK(sCurHeap, u.heap)
                THEN /\ sCurHeap' = u.prev
                     /\ scopes' = SubSeq(scopes, 1, Len(scopes) - 1)
                     /\ crashed' = FALSE
                ELSE /\ UNCHANGED <<sCurHeap, scopes>>
                     /\ crashed' = TRUE
           /\ last' = Did("close", u.heap, sCurHeap)
    /\ UNCHANGED cell
    /\ UNCHANGED heapVars

NextScopes ==
    \/ \E h \in HeapIds : Enter(h)
    \/ \E h \in HeapIds : Exit(h)
    \/ \E h \in HeapIds : UsingHeapOpen(h)
    \/ UsingHeapClose
    \/ \E on \in BOOLEAN : setAllocFailureHandler(1, on)
    \/ \E n \in ResizeSizes : Resize(1, n)

SpecScopes == Init /\ [][NextScopes]_vars

----------------------------------------------------------------------------
(* The bits of a Val (Val.hh).  A 32-bit word is the pair of its high and   *)
(* low 16 bits; an address difference is an integer.                      *)

\* 2^16 and 2^15
Half == 65536

HalfSign == 32768

\* enum TagBits { IntTag = 0b001 } and TagSize
IntTag == 1

TagSize == 1

\* enum magic: NullVal = 0 is the word <<0, 0>>
NullishVal == 2

FalseVal == 4

TrueVal == 6

INT32_MAX == 2147483647

INT32_MIN == -INT32_MAX - 1

\* uintpos(n): the 32 low bits of an integer in two's complement
Word(n) == <<(n \div Half) % Half, n % Half>>

\* int32_t(w)
asInt32(w) == (IF w[1] >= HalfSign THEN w[1] - Half ELSE w[1]) * Half + w[2]

\* w << TagSize on 32 bits
ShiftLeft(w) == <<(w[1] * 2 + w[2] \div HalfSign) % Half, (w[2] * 2) % Half>>

\* n >> TagSize on a signed integer
ShiftRight(n) == n \div 2

\* w > k for a small constant k
WordGreater(w, k) == w[1] > 0 \/ w[2] > k

isNull(w) == w = <<0, 0>>

isNullish(w) == w = <<0, NullishVal>>

isBool(w) == w = <<0, FalseVal>> \/ w = <<0, TrueVal>>

isInt(w) == (w[2] % 2) = IntTag

isObject(w) == (w[2] % 2) = 0 /\ WordGreater(w, TrueVal)

\* an encoding that keeps the offset unshifted
EncodeUnshifted(off) == Word(off)

\* ValBase32::operator=(Block const* dst), off = intptr_t(dst) - intptr_t(this):
\* _val = uintpos(off) << TagSize
EncodeOffset(off) == ShiftLeft(Word(off))

\* assert(off <= INT32_MAX && off >= INT32_MIN)
OffsetInRange(off) == off <= INT32_MAX /\ off >= INT32_MIN

\* a decoding that forgets to shift the tag bit out
DecodeUnshifted(w) == asInt32(w)

\* ValBase32::_block(): int32_t(_val) >> TagSize, to be added to this
DecodeOffset(w) == ShiftRight(asInt32(w))

----------------------------------------------------------------------------
(* One Val cell and the block pointers assigned to it *)

\* largest distance, in bytes, of the near blocks assigned
MaxOffset == 24

\* 2^30
Giga == 1073741824

\* the distances dst - this a client assigns: near ones, and the ones around
\* 1GB and 2GB
Offsets ==
    (-MaxOffset..MaxOffset)
      \union {Giga - 2, Giga - 1, Giga, Giga + 1, Giga + 2, INT32_MAX - 1, INT32_MAX}
      \union {-Giga + 1, -Giga, -Giga - 1, -Giga - 2, INT32_MIN + 2, INT32_MIN + 1, INT32_MIN}

\* val = dst, with dst a block at distance off
AssignBlock(off) ==
    /\ ~crashed
    /\ cell' = [off |-> off, val |-> EncodeOffset(off), op |-> "assigned"]
    /\ crashed' = ~(OffsetInRange(off) /\ isObject(EncodeOffset(off)))
    /\ last' = Did("assign", 0, 0)
    /\ UNCHANGED <<sCurHeap, scopes>>
    /\ UNCHANGED heapVars

\* val = nullptr
AssignNull ==
    /\ ~crashed
    /\ cell.op # "null"
    /\ cell' = [off |-> 0, val |-> <<0, 0>>, op |-> "null"]
    /\ last' = Did("assign", 0, 0)
    /\ UNCHANGED <<crashed, sCurHeap, scopes>>
    /\ UNCHANGED heapVars

\* val.block(): h = 1 and the distance of the block from the Val, or h = 0
\* for nullptr
ReadBlock ==
    /\ ~crashed
    /\ cell.op # "none"
    /\ last.op # "block"
    /\ last' = IF isObject(cell.val) THEN Did("block", 1, DecodeOffset(cell.val))
                                     ELSE Did("block", 0, 0)
    /\ UNCHANGED <<crashed, cell, sCurHeap, scopes>>
    /\ UNCHANGED heapVars

\* ValBase32::MaxInt = (1 << 30) - 1 and MinInt
MaxInt == Giga - 1

MinInt == -MaxInt - 1

\* an encoding that leaves the int tag out
EncodeIntUntagged(i) == ShiftLeft(Word(i))

\* ValBase(int i): _val = (i << TagSize) | IntTag
EncodeInt(i) ==
    LET w == ShiftLeft(Word(i)) IN <<w[1], w[2] - (w[2] % 2) + IntTag>>

\* assert(i >= MinInt && i <= MaxInt)
IntInRange(i) == i >= MinInt /\ i <= MaxInt

\* asInt(): int32_t(_val) >> TagSize
asInt(w) == ShiftRight(asInt32(w))

\* largest magnitude of the small integers stored
MaxSmallInt == 8

\* the integers a client stores: small ones, and the ones around the limits of
\* 31 and of 32 bits
Ints ==
    (-MaxSmallInt..MaxSmallInt)
      \union {MaxInt - 1, MaxInt, MaxInt + 1, INT32_MAX - 1, INT32_MAX}
      \union {MinInt + 1, MinInt, MinInt - 1, INT32_MIN + 1, INT32_MIN}

\* Val(i)
AssignInt(i) ==
    /\ ~crashed
    /\ cell' = [off |-> i, val |-> EncodeInt(i), op |-> "int"]
    /\ crashed' = ~IntInRange(i)
    /\ last' = Did("assign", 0, 0)
    /\ UNCHANGED <<sCurHeap, scopes>>
    /\ UNCHANGED heapVars

\* val.asInt(), which asserts isInt()
ReadInt ==
    /\ ~crashed
    /\ cell.op # "none"
    /\ last.op # "asInt"
    /\ crashed' = ~isInt(cell.val)
    /\ last' = IF isInt(cell.val) THEN Did("asInt", 1, asInt(cell.val))
                                  ELSE Did("asInt", 0, 0)
    /\ UNCHANGED <<cell, sCurHeap, scopes>>
    /\ UNCHANGED heapVars

NextVal ==
    \/ \E off \in Offsets : AssignBlock(off)
    \/ AssignNull
    \/ ReadBlock
    \/ \E i \in Ints : AssignInt(i)
    \/ ReadInt

SpecVal == Init /\ [][NextVal]_vars

----------------------------------------------------------------------------
(* Serialization: a heap of strings and arrays whose bytes are copied and *)
(* adopted again with Heap::existing                                      *)

NextAdopt ==
    \/ \E blk \in {RawBlock("String", 1, BlockCount(1) + 1)}
                     \union {SlotBlock("Array", n) : n \in SlotCounts} : Alloc(1, blk)
    \/ \E val \in ClientVals(1) : setRoot(1, val)
    \/ \E pos \in DOMAIN blocksOf(1), i \in SlotCounts :
         \E val \in ClientVals(1) : SetSlot(1, pos, i, val)
    \/ \E cap \in Capacities, magic \in {kMagic, BadMagic} :
         Existing(1, 1, used(heaps[1]), cap, magic)

SpecAdopt == Init /\ [][NextAdopt]_vars

\* addresses at which the bytes of a heap may lie
Bases == {0, 64, 4096}

\* The position a stored reference decodes to once the bytes of the heap have
\* been copied from base1 to base2: the Val, written at base1 + ref[1] for the
\* block at base1 + ref[2], is read at base2 + ref[1].
RelocatedPos(ref, base1, base2) ==
    LET w == EncodeOffset((base1 + ref[2]) - (base1 + ref[1]))
    IN  ((base2 + ref[1]) + DecodeOffset(w)) - base2

----------------------------------------------------------------------------
(* Where the Vals of a heap lie, as positions *)

\* struct Header {uint32_t magic; Val root;}: the root follows the magic number
RootAddr == HeaderSize - ValSize

\* the i-th slot of the block at pos follows the block header and the slots
\* before it
SlotAddr(pos, t, i) == pos + BlockHeaderSize + SlotSize(t) * (i - 1)

\* the Vals of block pos, each with its position: the slots of an array, the
\* key and the value of each entry of a dict
BlockVals(pos, b) ==
    IF b.type = "Dict"
      THEN {<<SlotAddr(pos, b.type, i), b.slots[i].key>> : i \in 1..Len(b.slots)}
             \union {<<SlotAddr(pos, b.type, i) + ValSize, b.slots[i].value>> :
                        i \in 1..Len(b.slots)}
      ELSE {<<SlotAddr(pos, b.type, i), b.slots[i]>> : i \in 1..Len(b.slots)}

\* every Val stored in memory m, with its position
StoredVals(m) ==
    {<<RootAddr, m.root>>} \union UNION {BlockVals(pos, m.blocks[pos]) : pos \in DOMAIN m.blocks}

----------------------------------------------------------------------------
(* Reading a heap: the blocks a Val reaches *)

\* the Vals a block holds, in slot order (key then value for a dict entry)
Children(b) ==
    IF b.type = "Dict"
      THEN [i \in 1..(2 * Len(b.slots)) |->
              IF i % 2 = 1 THEN b.slots[(i + 1) \div 2].key ELSE b.slots[i \div 2].value]
      ELSE b.slots

\* val refers to a block of memory m whose type is the one val announces
Resolves(m, val) ==
    /\ ValIsObject(val)
    /\ asPos(val) \in DOMAIN m.blocks
    /\ m.blocks[asPos(val)].type = val.tag

\* the stored Vals that refer to a block of m, as <<position of the Val,
\* position of the block>>
StoredRefs(m) == {<<sv[1], asPos(sv[2])>> : sv \in {x \in StoredVals(m) : Resolves(m, x[2])}}

\* the block val refers to lies wholly inside [sizeof(Header), used)
InsideHeap(hp, m, val) ==
    /\ Resolves(m, val)
    /\ validPos(hp, asPos(val))
    /\ asPos(val) + BlockSize(m.blocks[asPos(val)]) <= used(hp)

RECURSIVE Reach(_, _, _)
RECURSIVE ReachSlots(_, _, _, _)

\* seen, plus every Val read from val on: val itself and, when it resolves, the
\* Vals reached through the block's slots
Reach(m, val, seen) ==
    IF val \in seen THEN seen
    ELSE IF Resolves(m, val)
      THEN ReachSlots(m, Children(m.blocks[asPos(val)]), 1, seen \union {val})
      ELSE seen \union {val}

ReachSlots(m, slots, i, seen) ==
    IF i > Len(slots) THEN seen
    ELSE ReachSlots(m, slots, i + 1, Reach(m, slots[i], seen))

\* the Vals read from the root or from a reachable block
Reachable(m) == Reach(m, m.root, {})

ReachableBlocks(m) == {asPos(val) : val \in {w \in Reachable(m) : Resolves(m, w)}}

RECURSIVE Walk(_, _, _, _, _)
RECURSIVE WalkSlots(_, _, _, _, _, _)

\* The pairs <<a, b>> of Vals met when memory m1 is read from a and memory m2
\* from b in step: a and b themselves and, when both resolve, the Vals in the
\* same slots of their blocks.
Walk(m1, m2, a, b, seen) ==
    IF <<a, b>> \in seen THEN seen
    ELSE IF Resolves(m1, a) /\ Resolves(m2, b)
      THEN WalkSlots(m1, m2, Children(m1.blocks[asPos(a)]), Children(m2.blocks[asPos(b)]),
                     1, seen \union {<<a, b>>})
      ELSE seen \union {<<a, b>>}

WalkSlots(m1, m2, s1, s2, i, seen) ==
    IF i > Len(s1) \/ i > Len(s2) THEN seen
    ELSE WalkSlots(m1, m2, s1, s2, i + 1, Walk(m1, m2, s1[i], s2[i], seen))

\* the pairs of corresponding Vals of two heaps, read from their roots
Corresponding(m1, m2) == Walk(m1, m2, m1.root, m2.root, {})

\* a and b are the same inline value, or refer to blocks of the same type, byte
\* payload and slot count
SameValue(m1, m2, a, b) ==
    IF ValIsObject(a)
      THEN /\ Resolves(m1, a) /\ Resolves(m2, b)
           /\ a.tag = b.tag
           /\ m1.blocks[asPos(a)].data = m2.blocks[asPos(b)].data
           /\ Len(m1.blocks[asPos(a)].slots) = Len(m2.blocks[asPos(b)].slots)
      ELSE a = b

\* every value reachable from m1's root equals the corresponding one of m2
StructurallyEqual(m1, m2) ==
    \A pair \in Corresponding(m1, m2) : SameValue(m1, m2, pair[1], pair[2])

----------------------------------------------------------------------------
(* Heap::visit and Heap::visitAll *)

RECURSIVE visitAllFrom(_, _, _)

\* the blocks from pos to used(), found by stepping over each block's size
visitAllFrom(hp, m, pos) ==
    IF pos >= used(hp) \/ pos \notin DOMAIN m.blocks THEN <<>>
    ELSE <<pos>> \o visitAllFrom(hp, m, pos + BlockSize(m.blocks[pos]))

Visited(calls) == {calls[i] : i \in DOMAIN calls}

RECURSIVE visitFrom(_, _, _)
RECURSIVE visitSlots(_, _, _, _)

\* a traversal that reports the block of val and looks no further
visitRootOnly(m, val, calls) ==
    IF ~Resolves(m, val) \/ asPos(val) \in Visited(calls) THEN calls
    ELSE Append(calls, asPos(val))

\* calls, followed by the blocks first met from val on: the block of val, then
\* those reached through its slots
visitFrom(m, val, calls) ==
    IF ~Resolves(m, val) \/ asPos(val) \in Visited(calls) THEN calls
    ELSE visitSlots(m, Children(m.blocks[asPos(val)]), 1, Append(calls, asPos(val)))

visitSlots(m, slots, i, calls) ==
    IF i > Len(slots) THEN calls
    ELSE visitSlots(m, slots, i + 1, visitFrom(m, slots[i], calls))

\* the calls made to a Visitor that returns false from its stopAt-th call
\* (never, when stopAt is 0)
UntilFalse(calls, stopAt) ==
    IF stopAt = 0 \/ stopAt > Len(calls) THEN calls ELSE SubSeq(calls, 1, stopAt)

Visit(h, stopAt) ==
    /\ Idle
    /\ last' = Did("visit", h,
                   [calls |-> UntilFalse(visitFrom(mem[h], root(h), <<>>), stopAt),
                    stopAt |-> stopAt])
    /\ UNCHANGED <<heaps, mem, ext, pend, crashed>>
    /\ UNCHANGED outside

VisitAll(h, stopAt) ==
    /\ Idle
    /\ last' = Did("visitAll", h,
                   [calls |-> UntilFalse(visitAllFrom(heaps[h], mem[h], HeaderSize), stopAt),
                    stopAt |-> stopAt])
    /\ UNCHANGED <<heaps, mem, ext, pend, crashed>>
    /\ UNCHANGED outside

NextVisit ==
    \/ \E blk \in NewBlocks(BlockCount(1) + 1) : Alloc(1, blk)
    \/ \E val \in ClientVals(1) : setRoot(1, val)
    \/ \E pos \in DOMAIN blocksOf(1), i \in SlotCounts :
         \E val \in ClientVals(1) : SetSlot(1, pos, i, val)
    \/ \E pos \in DOMAIN blocksOf(1) :
         \E key \in BlockRefs(1), val \in ClientVals(1) : SetEntry(1, pos, key, val)
    \/ \E stopAt \in 0..MaxBlocks : Visit(1, stopAt)
    \/ \E stopAt \in 0..MaxBlocks : VisitAll(1, stopAt)

SpecVisit == Init /\ [][NextVisit]_vars

----------------------------------------------------------------------------
(* Dict (Collections.cc): one dict, its keys the symbols at KeyBlocks *)

\* most entry slots of the dict
MaxEntries == 3

\* the positions of the symbol blocks used as keys
KeyBlocks == {10, 13, 16, 19}

KeySyms == {ObjVal("Symbol", p) : p \in KeyBlocks}

\* the values stored in the dict
DictValues == {IntVal(1), IntVal(2)}

\* Dict::items(): {all.begin(), _findEntry(all, nullptr)}
DictItems(entries) == SubSeq(entries, 1, findEntry(entries, 0) - 1)

\* Dict::find: whether a value was found, where, and the value
DictFind(entries, key) ==
    LET ep == findEntry(entries, block(key))
    IN  IF ep # Len(entries) + 1 /\ entries[ep].key = key
          THEN [found |-> TRUE, at |-> ep, value |-> entries[ep].value]
          ELSE [found |-> FALSE, at |-> 0, value |-> NullVal]

\* Dict::replace
DictReplace(entries, key, newValue) ==
    LET f == DictFind(entries, key)
    IN  IF f.found
          THEN [ok |-> TRUE, entries |-> [entries EXCEPT ![f.at].value = newValue]]
          ELSE [ok |-> FALSE, entries |-> entries]

\* a removal that leaves the last entry as it was
ShiftDownKeepsLast(entries, ep) ==
    [i \in 1..Len(entries) |->
        IF i >= ep /\ i < Len(entries) THEN entries[i + 1] ELSE entries[i]]

\* the loop of Dict::remove, for (p = ep + 1; p < all.end(); ++p) p[-1] =
\* std::move(p[0]), and new (&all.back()) DictEntry {}
ShiftDown(entries, ep) ==
    [i \in 1..Len(entries) |->
        IF i < ep THEN entries[i]
        ELSE IF i < Len(entries) THEN entries[i + 1]
        ELSE NullEntry]

\* Dict::remove
DictRemove(entries, key) ==
    LET ep == findEntry(entries, block(key))
    IN  IF ep # Len(entries) + 1 /\ entries[ep].key = key
          THEN [ok |-> TRUE, entries |-> ShiftDown(entries, ep)]
          ELSE [ok |-> FALSE, entries |-> entries]

\* no value stored under a key
NoValue == [has |-> FALSE, value |-> NullVal]

HasValue(value) == [has |-> TRUE, value |-> value]

\* what the client last stored under key and did not remove since
StoredFor(key) == IF key \in DOMAIN stored THEN stored[key] ELSE NoValue

\* a call on the dict, its arguments and what it returned
Called(op, key, value, insertOnly, res) ==
    [op |-> op, h |-> 0, res |-> res, key |-> key, value |-> value, insertOnly |-> insertOnly]

\* a dict of n entries, all null
NewDict(n) ==
    /\ ~crashed
    /\ last.op # "newDict"
    /\ dict' = [i \in 1..n |-> NullEntry]
    /\ stored' = [k \in KeySyms |-> NoValue]
    /\ last' = Called("newDict", NullVal, NullVal, FALSE, n)
    /\ UNCHANGED <<heaps, mem, ext, pend, crashed, sCurHeap, scopes, cell, vec, handleVars>>

\* dict.set(key, value, insertOnly)
Set(key, value, insertOnly) ==
    LET r == DictSet(dict, key, value, insertOnly)
    IN  /\ ~crashed
        /\ dict' = r.entries
        /\ stored' = IF r.ok THEN [k \in KeySyms |-> IF k = key THEN HasValue(value) ELSE StoredFor(k)]
                              ELSE stored
        /\ last' = Called("set", key, value, insertOnly, r.ok)
        /\ UNCHANGED <<heaps, mem, ext, pend, crashed, sCurHeap, scopes, cell, vec, handleVars>>

\* dict.replace(key, value)
Replace(key, value) ==
    LET r == DictReplace(dict, key, value)
    IN  /\ ~crashed
        /\ dict' = r.entries
        /\ stored' = IF r.ok THEN [k \in KeySyms |-> IF k = key THEN HasValue(value) ELSE StoredFor(k)]
                              ELSE stored
        /\ last' = Called("replace", key, value, FALSE, r.ok)
        /\ UNCHANGED <<heaps, mem, ext, pend, crashed, sCurHeap, scopes, cell, vec, handleVars>>

\* dict.remove(key)
Remove(key) ==
    LET r == DictRemove(dict, key)
    IN  /\ ~crashed
        /\ dict' = r.entries
        /\ stored' = [k \in KeySyms |-> IF k = key THEN NoValue ELSE StoredFor(k)]
        /\ last' = Called("remove", key, NullVal, FALSE, r.ok)
        /\ UNCHANGED <<heaps, mem, ext, pend, crashed, sCurHeap, scopes, cell, vec, handleVars>>

\* dict.find(key)
Find(key) ==
    LET f == DictFind(dict, key)
    IN  /\ ~crashed
        /\ last' = Called("find", key, f.value, FALSE, f.found)
        /\ UNCHANGED <<heaps, mem, ext, pend, crashed, sCurHeap, scopes, cell>>
        /\ UNCHANGED <<collections, handleVars>>

NextDict ==
    \/ \E n \in 0..MaxEntries : NewDict(n)
    \/ \E key \in KeySyms, value \in DictValues, insertOnly \in BOOLEAN :
         Set(key, value, insertOnly)
    \/ \E key \in KeySyms, value \in DictValues : Replace(key, value)
    \/ \E key \in KeySyms : Remove(key)
    \/ \E key \in KeySyms : Find(key)

SpecDict == Init /\ [][NextDict]_vars

----------------------------------------------------------------------------
(* Handle (GarbageCollector.hh): an object cell outside the heap, registered *)
(* with the current heap while the Handle lives                            *)

\* heap->registerExternalRoot(&_obj)
RegisterRoot(rs, h, c) == [rs EXCEPT ![h] = @ \union {c}]

\* heap->unregisterExternalRoot(&_obj)
UnregisterRoot(rs, h, c) == [rs EXCEPT ![h] = @ \ {c}]

\* HandleBase(Object o): Heap::current()->registerExternalRoot(&_obj)
NewHandle(c) ==
    /\ ~crashed
    /\ ~handles[c].alive
    /\ IF sCurHeap = 0
         THEN crashed' = TRUE /\ UNCHANGED <<handles, roots>>
         ELSE /\ handles' = [handles EXCEPT ![c] = [alive |-> TRUE, heap |-> sCurHeap]]
              /\ roots' = RegisterRoot(roots, sCurHeap, c)
              /\ UNCHANGED crashed
    /\ last' = Did("handle", sCurHeap, c)
    /\ UNCHANGED <<heaps, mem, ext, pend, sCurHeap, scopes, cell, collections>>

\* ~HandleBase(): Heap::current()->unregisterExternalRoot(&_obj)
DeleteHandle(c) ==
    /\ ~crashed
    /\ handles[c].alive
    /\ IF sCurHeap = 0
         THEN crashed' = TRUE /\ UNCHANGED <<handles, roots>>
         ELSE /\ handles' = [handles EXCEPT ![c].alive = FALSE]
              /\ roots' = UnregisterRoot(roots, sCurHeap, c)
              /\ UNCHANGED crashed
    /\ last' = Did("unhandle", sCurHeap, c)
    /\ UNCHANGED <<heaps, mem, ext, pend, sCurHeap, scopes, cell, collections>>

NextHandles ==
    \/ \E h \in HeapIds : Enter(h)
    \/ \E h \in HeapIds : Exit(h)
    \/ \E c \in Cells : NewHandle(c)
    \/ \E c \in Cells : DeleteHandle(c)
    \/ \E h \in HeapIds : UsingHeapOpen(h)
    \/ UsingHeapClose

SpecHandles == Init /\ [][NextHandles]_vars

----------------------------------------------------------------------------
(* Vector (Collections.cc): one vector; all[1] is slot 0, which holds the  *)
(* size, and all[k + 2] is item k                                          *)

\* largest capacity of the vector
MaxCapacity == 3

\* the values stored in the vector
VecValues == {IntVal(1), IntVal(2), IntVal(3)}

\* Vector::size(): the integer in slot 0
VectorSize(all) == all[1].v

\* Vector::capacity(): the slots after slot 0
VectorCapacity(all) == Len(all) - 1

\* Vector::_setSize
SetSize(all, sz) == [all EXCEPT ![1] = IntVal(sz)]

\* an insert that stores the value without moving the items up
VectorInsertNoShift(all, val, pos) ==
    IF VectorSize(all) >= VectorCapacity(all)
      THEN [ok |-> FALSE, all |-> all]
      ELSE [ok |-> TRUE, all |-> SetSize([all EXCEPT ![pos + 2] = val], VectorSize(all) + 1)]

\* Vector::insert, for pos <= size(): for (i = items.end(); i > dst; --i)
\* i[0] = i[-1]; *dst = val; _setSize(sz + 1)
VectorInsert(all, val, pos) ==
    LET sz == VectorSize(all)
    IN  IF sz >= VectorCapacity(all)
          THEN [ok |-> FALSE, all |-> all]
          ELSE [ok |-> TRUE,
                all |-> SetSize([i \in DOMAIN all |->
                                   IF i = pos + 2 THEN val
                                   ELSE IF i > pos + 2 /\ i <= sz + 2 THEN all[i - 1]
                                   ELSE all[i]],
                                sz + 1)]

\* Vector::append: allItems()[sz + 1] = val; _setSize(sz + 1)
VectorAppend(all, val) ==
    LET sz == VectorSize(all)
    IN  IF sz >= VectorCapacity(all)
          THEN [ok |-> FALSE, all |-> all]
          ELSE [ok |-> TRUE, all |-> SetSize([all EXCEPT ![sz + 2] = val], sz + 1)]

\* a call on the vector, its arguments and what it returned
VecCalled(op, val, pos, res) == [op |-> op, h |-> 0, res |-> res, val |-> val, pos |-> pos]

\* a vector of capacity cap, empty
NewVector(cap) ==
    /\ ~crashed
    /\ last.op # "newVector"
    /\ vec' = <<IntVal(0)>> \o NullSlots(cap)
    /\ last' = VecCalled("newVector", NullVal, 0, cap)
    /\ UNCHANGED <<heaps, mem, ext, pend, crashed, sCurHeap, scopes, cell, dict, stored, handleVars>>

\* vec.insert(val, pos), which asserts pos <= size()
insert(val, pos) ==
    LET r == VectorInsert(vec, val, pos)
    IN  /\ ~crashed
        /\ vec # <<>>
        /\ IF pos <= VectorSize(vec)
             THEN vec' = r.all /\ last' = VecCalled("insert", val, pos, r.ok) /\ UNCHANGED crashed
             ELSE crashed' = TRUE /\ last' = VecCalled("insert", val, pos, FALSE) /\ UNCHANGED vec
        /\ UNCHANGED <<heaps, mem, ext, pend, sCurHeap, scopes, cell, dict, stored, handleVars>>

\* vec.append(val)
append(val) ==
    LET r == VectorAppend(vec, val)
    IN  /\ ~crashed
        /\ vec # <<>>
        /\ vec' = r.all
        /\ last' = VecCalled("append", val, VectorSize(vec), r.ok)
        /\ UNCHANGED <<heaps, mem, ext, pend, crashed, sCurHeap, scopes, cell, dict, stored, handleVars>>

NextVector ==
    \/ \E cap \in 0..MaxCapacity : NewVector(cap)
    \/ \E val \in VecValues, pos \in 0..(MaxCapacity + 1) : insert(val, pos)
    \/ \E val \in VecValues : append(val)

SpecVector == Init /\ [][NextVector]_vars

----------------------------------------------------------------------------
(* Properties *)

\* a collection that ran to completion has just ended
Collected == last.op = "gc" /\ ~crashed

\* C1: in every reachable state, every heap has
\* sizeof(Header) <= used() <= capacity().
C1_UsedWithinCapacity ==
    \A h \in HeapIds :
        HeaderSize <= used(heaps[h]) /\ used(heaps[h]) <= capacity(heaps[h])

\* C2: a collection leaves every value reachable from the old root
\* structurally equal to the corresponding value reachable from the new root.
C2_StructurePreserved ==
    [][Collected' => StructurallyEqual(mem[1], mem'[1])]_vars

\* the source references met while the old and the new graph are read in step
SourceRefs(pairs, m1) == {pr[1] : pr \in {q \in pairs : Resolves(m1, q[1])}}

Images(pairs, a) == {pr[2] : pr \in {q \in pairs : asPos(q[1]) = asPos(a) /\ ValIsObject(q[1])}}

\* C3: a collection makes exactly one copy of each referenced source block, and
\* all relocated references to it decode to that one destination block.
C3_SharingPreserved ==
    [][Collected' =>
        LET pairs == Corresponding(mem[1], mem'[1])
            refs  == SourceRefs(pairs, mem[1])
        IN  /\ \A a \in refs :
                 /\ Cardinality(Images(pairs, a)) = 1
                 /\ \A b \in Images(pairs, a) : Resolves(mem'[1], b)
            /\ \A a \in refs, b \in refs :
                 asPos(a) # asPos(b) => Images(pairs, a) # Images(pairs, b)
            /\ Cardinality(DOMAIN mem'[1].blocks) = Cardinality({asPos(a) : a \in refs})
      ]_vars

\* C4: after a collection every Val reachable from the live heap's root is an
\* inline value or refers to a block wholly inside [sizeof(Header), used).
C4_ReachableInsideHeap ==
    Collected =>
        \A val \in Reachable(mem[1]) :
            ValIsObject(val) => InsideHeap(heaps[1], mem[1], val)

\* the non-null entries of a dict
Items(entries) == {i \in 1..Len(entries) : entries[i].key # NullVal}

Descending(entries) ==
    \A i \in 1..(Len(entries) - 1) :
        entries[i + 1].key = NullVal \/ block(entries[i].key) > block(entries[i + 1].key)

\* dict d2 of memory m2 maps the copy of each key of dict d1 to d1's value
SameMapping(m1, m2, d1, d2) ==
    \A i \in Items(d1) :
        \E j \in Items(d2) :
            /\ SameValue(m1, m2, d1[i].key, d2[j].key)
            /\ findEntry(d2, block(d2[j].key)) = j
            /\ SameValue(m1, m2, d1[i].value, d2[j].value)

HoldsDict(m) ==
    \E val \in Reachable(m) :
        Resolves(m, val) /\ val.tag = "Dict" /\ Items(m.blocks[asPos(val)].slots) # {}

\* C5: a collection of a heap whose root reaches a dict with entries completes,
\* and a dict at the root is relocated with its entries sorted by descending
\* key position and every key looking up its original value.
C5_DictCollected ==
    [][(last'.op = "gc" /\ HoldsDict(mem[1])) =>
        /\ ~crashed'
        /\ (Resolves(mem[1], root(1)) /\ root(1).tag = "Dict") =>
             /\ Resolves(mem'[1], mem'[1].root)
             /\ mem'[1].root.tag = "Dict"
             /\ Descending(mem'[1].blocks[asPos(mem'[1].root)].slots)
             /\ SameMapping(mem[1], mem'[1], mem[1].blocks[asPos(root(1))].slots,
                            mem'[1].blocks[asPos(mem'[1].root)].slots)
      ]_vars

\* C6: a collection rewrites every registered external root cell that referred
\* to a block of the collected heap so that it refers to the block's copy in
\* the live heap.
C6_ExternalRootsScanned ==
    [][Collected' =>
        \A c \in Cells :
            (ext[c].heap = 1 /\ Resolves(mem[1], ext[c].val)) =>
                /\ ext'[c].heap = 1
                /\ InsideHeap(heaps'[1], mem'[1], ext'[c].val)
                /\ SameValue(mem[1], mem'[1], ext[c].val, ext'[c].val)
      ]_vars

\* C7: a collection never increases used(), and leaves it as it was when the
\* heap held no unreachable block.
C7_UsedAfterCollection ==
    [][Collected' =>
        /\ used(heaps'[1]) <= used(heaps[1])
        /\ (DOMAIN mem[1].blocks \subseteq ReachableBlocks(mem[1]))
             => used(heaps'[1]) = used(heaps[1])
      ]_vars

\* the new root is the old inline root, or refers to the copy of the string or
\* array the old root referred to
RootRelocated(hp2, m1, m2) ==
    IF ~ValIsObject(m1.root) THEN m2.root = m1.root
    ELSE (m1.root.tag \in {"String", "Array"} /\ Resolves(m1, m1.root)) =>
            /\ InsideHeap(hp2, m2, m2.root)
            /\ SameValue(m1, m2, m1.root, m2.root)

Blobs == {RawBlock("Blob", n, k) : n \in DataSizes, k \in 1..(MaxBlocks + 1)}

\* C9: an alloc that does not fit, on a heap without a failure handler or whose
\* handler returns false, returns nullptr and leaves used(), the root and the
\* blocks as they were.
C9_FailedAllocChangesNothing ==
    [][/\ \A blk \in Blobs :
            (used(heaps[1]) + BlockSize(blk) > capacity(heaps[1])
                /\ ~heaps[1].handler /\ Alloc(1, blk))
              => (last' = Did("alloc", 1, 0) /\ heaps' = heaps /\ mem' = mem)
       /\ HandlerFalse => (last' = Did("alloc", 1, 0) /\ heaps' = heaps /\ mem' = mem)
       /\ (pend.h = 0 /\ last'.op = "alloc" /\ last'.res = 0) =>
            (heaps' = heaps /\ mem' = mem)
      ]_vars

\* alloc has just returned nullptr on a completely full heap without a handler
C9_Witness ==
    /\ last = Did("alloc", 1, 0) /\ pend.h = 0
    /\ ~heaps[1].handler
    /\ remaining(heaps[1]) = 0
    /\ BlockCount(1) >= 2

\* the blocks of a heap lie one after the other from the header to the cursor
Contiguous(hp, m) ==
    LET ps     == DOMAIN m.blocks
        end(p) == p + BlockSize(m.blocks[p])
    IN  /\ \A p \in ps : p = HeaderSize \/ \E q \in ps : end(q) = p
        /\ \A p \in ps : end(p) = used(hp) \/ \E q \in ps : q = end(p)
        /\ \A p \in ps, q \in ps : p < q => end(p) <= q
        /\ ps = {} => used(hp) = HeaderSize

\* C10: a successful allocation returns the old cursor and advances used() by
\* the block's size, so the blocks stay contiguous and disjoint from the header
\* to used(); an allocation of exactly remaining() bytes succeeds and fills the
\* heap; and no allocation changes an earlier block.
C10_BumpAllocation ==
    /\ [](Contiguous(heaps[1], mem[1]))
    /\ [][(last'.op = "alloc" /\ last'.res # 0) =>
            /\ last'.res = used(heaps[1])
            /\ last'.res \in DOMAIN mem'[1].blocks
            /\ used(heaps'[1]) = used(heaps[1]) + BlockSize(mem'[1].blocks[last'.res])
            /\ \A p \in DOMAIN mem[1].blocks : mem'[1].blocks[p] = mem[1].blocks[p]
         ]_vars
    /\ [][\A blk \in NewBlocks(BlockCount(1) + 1) :
            (BlockSize(blk) = remaining(heaps[1]) /\ Alloc(1, blk)) =>
               (last'.res # 0 /\ used(heaps'[1]) = capacity(heaps'[1]))
         ]_vars

\* the second block of a heap has just filled it exactly
C10_Witness ==
    /\ last.op = "alloc" /\ last.res > HeaderSize
    /\ used(heaps[1]) = capacity(heaps[1])
    /\ last.res + BlockSize(mem[1].blocks[last.res]) = capacity(heaps[1])

\* C11: the alloc-failure handler runs only while the requested block does not
\* fit in the heap it is handed; when it returns false alloc returns nullptr at
\* once, and when it returns true the allocation is tried again on the heap as
\* the handler left it: it succeeds at that heap's cursor exactly when the
\* block now fits, so alloc returns as soon as the handler has returned false
\* or has left enough room.
C11_HandlerProtocol ==
    /\ [](pend.h # 0 =>
            /\ heaps[pend.h].handler
            /\ pend.calls >= 1
            /\ used(heaps[pend.h]) + BlockSize(pend.block) > capacity(heaps[pend.h]))
    /\ [][(pend.h # 0 /\ ~crashed') =>
            LET h == pend.h
                n == BlockSize(pend.block)
            IN  IF HandlerFalse
                  THEN last' = Did("alloc", h, 0) /\ pend' = None
                       /\ heaps' = heaps /\ mem' = mem
                ELSE IF last'.op = "alloc" /\ last'.res # 0
                  THEN /\ pend' = None
                       /\ last'.res + n = used(heaps'[h])
                       /\ used(heaps'[h]) <= capacity(heaps'[h])
                       /\ mem'[h].blocks[last'.res] = pend.block
                ELSE /\ used(heaps'[h]) + n > capacity(heaps'[h])
                     /\ IF heaps'[h].handler
                          THEN last' = Did("handler", h, 0)
                               /\ pend' = [pend EXCEPT !.calls = @ + 1]
                          ELSE last' = Did("alloc", h, 0) /\ pend' = None
         ]_vars
    /\ [][(pend.h = 0 /\ pend'.h # 0) =>
            /\ heaps' = heaps /\ mem' = mem
            /\ pend'.calls = 1
            /\ last' = Did("handler", pend'.h, 0)
         ]_vars

\* the handler has returned true without making room and is being called again
C11_Witness ==
    /\ pend.h # 0 /\ pend.calls >= 2
    /\ last = Did("handler", pend.h, 0)
    /\ ~crashed

\* the root stored in a header is an object reference outside [sizeof(Header), used)
RootOutOfRange(val, usedArg) ==
    ValIsObject(val) /\ (asPos(val) < HeaderSize \/ asPos(val) >= usedArg)

\* C12: Heap::existing(base, used, capacity) throws and constructs no heap when
\* the header's magic number is wrong or the root is an object reference
\* outside [sizeof(Header), used); in every other case it returns a heap with
\* the given used and capacity and the stored root.
C12_ExistingChecks ==
    [][last'.op = "existing" =>
        \A cap \in Capacities, magic \in {kMagic, BadMagic} :
          \A u \in UsedArgs(1, cap) :
            Existing(1, 1, u, cap, magic) =>
                IF magic # kMagic \/ RootOutOfRange(root(1), u)
                  THEN /\ last'.res \in {0, 1}
                       /\ last'.res = 0 <=> magic # kMagic
                       /\ heaps' = heaps /\ mem' = mem
                  ELSE /\ last'.res = 2
                       /\ used(heaps'[1]) = u
                       /\ capacity(heaps'[1]) = cap
                       /\ mem'[1].root = root(1)
                       /\ mem'[1].magic = kMagic
      ]_vars

\* a heap whose root refers to a block has just been adopted
C12_Witness ==
    /\ last = Did("existing", 1, 2)
    /\ ValIsObject(root(1))
    /\ asPos(root(1)) < used(heaps[1])
    /\ ~crashed

\* C13: after reset() on a heap in any state, used() == sizeof(Header), the
\* header carries the magic number, the root is null and no block is left.
C13_ResetEmpties ==
    [][last'.op = "reset" =>
        /\ ~crashed'
        /\ used(heaps'[last'.h]) = HeaderSize
        /\ mem'[last'.h].magic = kMagic
        /\ mem'[last'.h].root = NullVal
        /\ DOMAIN mem'[last'.h].blocks = {}
        /\ capacity(heaps'[last'.h]) = capacity(heaps[last'.h])
      ]_vars

\* a heap that was shrunk and given a failure handler has just been reset
C13_Witness ==
    /\ last = Did("reset", 1, 0)
    /\ heaps[1].handler
    /\ capacity(heaps[1]) = HeaderSize + SmallArena
    /\ used(heaps[1]) = HeaderSize /\ root(1) = NullVal
    /\ ~crashed

\* C14: resize(newSize) returns false and changes nothing when newSize is below
\* used() or when it would grow a malloc-owned heap; otherwise it returns true
\* and changes only the end of the heap: used(), the ownership flag, the
\* handler, the root and every block stay as they were.
C14_ResizeMovesOnlyEnd ==
    [][last'.op = "resize" =>
        \A n \in ResizeSizes :
            Resize(1, n) =>
                IF n < used(heaps[1]) \/ (n > capacity(heaps[1]) /\ heaps[1].malloced)
                  THEN last'.res = 0 /\ heaps' = heaps /\ mem' = mem
                  ELSE /\ last'.res = 1
                       /\ capacity(heaps'[1]) = n
                       /\ heaps' = [heaps EXCEPT ![1].end = n]
                       /\ mem' = mem
      ]_vars

\* a malloc-owned heap with nothing allocated has just refused to grow
C14_Witness ==
    /\ last = Did("resize", 1, 0)
    /\ heaps[1].malloced
    /\ used(heaps[1]) = HeaderSize
    /\ capacity(heaps[1]) = HeaderSize + SmallArena
    /\ ~crashed

\* the heap of the innermost open scope, 0 outside all scopes
InnermostScope == IF scopes = <<>> THEN 0 ELSE scopes[Len(scopes)].heap

\* C15: as long as the slot is handled by UsingHeap scopes alone, Heap::current()
\* is nullptr outside all scopes; opening a scope on heap h, also while another
\* heap's scope is open, makes h current; and closing a scope puts back the
\* value the slot had just before that scope was opened.
C15_ScopesRestoreCurrent ==
    [][sCurHeap = InnermostScope =>
        /\ scopes = <<>> => sCurHeap = 0
        /\ \A h \in HeapIds :
             UsingHeapOpen(h) => (~crashed' /\ sCurHeap' = h)
        /\ UsingHeapClose =>
             (~crashed' /\ sCurHeap' = scopes[Len(scopes)].prev)
      ]_vars

\* C16: the current-heap slot is set only when it is empty and cleared only by
\* the heap it holds; entering a heap while a heap is current, or exiting a
\* heap that is not the current one, is an assertion failure that leaves the
\* slot as it was.
C16_SlotDiscipline ==
    [][/\ \A h \in HeapIds :
            (sCurHeap # 0 /\ (Enter(h) \/ UsingHeapOpen(h)))
              => (crashed' /\ sCurHeap' = sCurHeap)
       /\ \A h \in HeapIds :
            (sCurHeap # h /\ Exit(h)) => (crashed' /\ sCurHeap' = sCurHeap)
       /\ (sCurHeap # InnermostScope /\ UsingHeapClose)
            => (crashed' /\ sCurHeap' = sCurHeap)
       /\ sCurHeap' # sCurHeap =>
            /\ ~crashed'
            /\ \/ sCurHeap = 0 /\ last'.op \in {"enter", "open"} /\ sCurHeap' = last'.h
               \/ sCurHeap' = 0 /\ last'.op \in {"exit", "close"} /\ sCurHeap = last'.h
      ]_vars

\* a scope on one heap was opened while the other heap was current: the
\* assertion failed and the slot still holds the other heap
C16_Witness ==
    /\ crashed
    /\ last.op = "open"
    /\ sCurHeap # 0 /\ sCurHeap # last.h
    /\ last.res = sCurHeap
    /\ Len(scopes) = 1

\* C19: a block pointer assigned to a Val, at any distance that fits a signed
\* 32-bit integer, is the pointer block() returns.
C19_BlockRoundTrip ==
    (last.op = "block" /\ cell.op = "assigned" /\ OffsetInRange(cell.off)) =>
        (last.h = 1 /\ last.res = cell.off)

\* C20: a Val stored in a heap (the header's root, a slot of an array, a key or
\* a value of a dict) that refers to a block of that heap, before or after its
\* own address, holds none of the inline patterns 0, 2, 4, 6 and has no int
\* tag: it is classified isObject(), so the assertions of the assignment hold.
C20_StoredRefsAreObjects ==
    \A ref \in StoredRefs(mem[1]) :
        LET off == ref[2] - ref[1]
            w   == EncodeOffset(off)
        IN  /\ OffsetInRange(off)
            /\ isObject(w)
            /\ ~isInt(w) /\ ~isNull(w) /\ ~isNullish(w) /\ ~isBool(w)

\* the root refers to the block right behind the header, and a slot of an array
\* to a block in front of it
C20_Witness ==
    /\ <<RootAddr, HeaderSize>> \in StoredRefs(mem[1])
    /\ \E ref \in StoredRefs(mem[1]) : ref[2] < ref[1] /\ ref[1] > HeaderSize
    /\ ~crashed

InAllocationOrder(m, calls) ==
    \A i \in DOMAIN calls, j \in DOMAIN calls :
        (i < j /\ Len(m.blocks[calls[i]].data) > 0 /\ Len(m.blocks[calls[j]].data) > 0)
            => m.blocks[calls[i]].data[1] < m.blocks[calls[j]].data[1]

\* C18: with a visitor that always returns true, visitAll calls it exactly once
\* for each block between sizeof(Header) and used(), reachable or not, in
\* allocation order; visit calls it exactly once for each block reachable from
\* the root and for no other block, and not at all on an empty heap; the blocks
\* visit reports are among those visitAll reports; and neither changes the heap.
C18_Visitors ==
    [][(last'.op \in {"visit", "visitAll"} /\ last'.res.stopAt = 0) =>
         LET calls == last'.res.calls
             all   == visitAllFrom(heaps[1], mem[1], HeaderSize)
         IN  /\ Len(calls) = Cardinality(Visited(calls))
             /\ last'.op = "visitAll" =>
                   /\ Visited(calls) = DOMAIN mem[1].blocks
                   /\ \A p \in Visited(calls) :
                        validPos(heaps[1], p) /\ p + BlockSize(mem[1].blocks[p]) <= used(heaps[1])
                   /\ \A i \in DOMAIN calls, j \in DOMAIN calls : i < j => calls[i] < calls[j]
                   /\ InAllocationOrder(mem[1], calls)
             /\ last'.op = "visit" =>
                   /\ Visited(calls) = ReachableBlocks(mem[1])
                   /\ Visited(calls) \subseteq Visited(all)
                   /\ (used(heaps[1]) = HeaderSize => calls = <<>>)
             /\ heaps' = heaps /\ mem' = mem
      ]_vars

\* visit has just reported the one reachable block of a heap of two blocks
\* that visitAll reports both, and the reachable block is the second one
C18_Witness ==
    /\ last.op = "visit" /\ last.res.stopAt = 0
    /\ Len(last.res.calls) = 1 /\ last.res.calls[1] > HeaderSize
    /\ Len(visitAllFrom(heaps[1], mem[1], HeaderSize)) = 2
    /\ ~crashed

\* C21: for every integer i from -2^30 to 2^30 - 1, Val(i) is an Int and is
\* neither null, nullish, a Bool nor an object, and asInt() returns i; Val(i)
\* for an integer outside that range fails its assertion.
C21_IntRoundTrip ==
    /\ [][\A i \in Ints : AssignInt(i) =>
             IF i >= -Giga /\ i <= Giga - 1
               THEN /\ ~crashed'
                    /\ isInt(cell'.val)
                    /\ ~isNull(cell'.val) /\ ~isNullish(cell'.val)
                    /\ ~isBool(cell'.val) /\ ~isObject(cell'.val)
                    /\ asInt(cell'.val) = i
               ELSE crashed'
         ]_vars
    /\ [][(last'.op = "asInt" /\ last.op # "asInt" /\ cell.op = "int") =>
             (~crashed' /\ last'.h = 1 /\ last'.res = cell.off)
         ]_vars

\* asInt() has just returned the smallest integer a Val holds
C21_Witness ==
    /\ last = Did("asInt", 1, -Giga)
    /\ cell.op = "int" /\ cell.off = -Giga
    /\ ~crashed

IsItem(entry) == entry.key # NullVal

\* C22: after any sequence of set, replace and remove calls on a dict that
\* started with all entries null, the keys are strictly descending by block
\* position, so no key appears twice, every entry with a key precedes every
\* null entry, and items() is exactly the entries with a key.
C22_DictSorted ==
    /\ \A i \in DOMAIN dict, j \in DOMAIN dict :
         (i < j /\ IsItem(dict[j])) =>
            (IsItem(dict[i]) /\ block(dict[i].key) > block(dict[j].key))
    /\ DictItems(dict) = SelectSeq(dict, IsItem)
    /\ \A i \in DOMAIN DictItems(dict) : DictItems(dict)[i] = dict[i]

\* a key has just been removed from a full dict of three entries, and two keys
\* are left before one null entry
C22_Witness ==
    /\ last.op = "remove" /\ last.res = TRUE
    /\ Len(dict) = 3 /\ Len(DictItems(dict)) = 2
    /\ ~IsItem(dict[3])
    /\ block(dict[1].key) > block(last.key) /\ block(last.key) > block(dict[2].key)

\* C23: whatever Handles were created and destroyed, and whichever heap was
\* current meanwhile, the external roots registered with a heap are exactly the
\* cells of the living Handles created on it.
C23_HandleRoots ==
    ~crashed =>
        \A h \in HeapIds :
            roots[h] = {c \in Cells : handles[c].alive /\ handles[c].heap = h}

\* the keys the client stored and did not remove
StoredKeys == {k \in KeySyms : StoredFor(k).has}

\* C24: a dict of N entries behaves like a finite map of at most N keys: find
\* returns the value most recently stored for the key by a successful set or
\* replace, and nothing for a key never stored or removed since; an operation
\* on one key leaves what is found for the other keys; remove and replace of
\* an absent key return false and change nothing.
C24_DictIsMap ==
    /\ [](\A k \in KeySyms :
            /\ DictFind(dict, k).found = StoredFor(k).has
            /\ DictFind(dict, k).found => DictFind(dict, k).value = StoredFor(k).value)
    /\ [](Cardinality(StoredKeys) <= Len(dict))
    /\ [][last'.op = "find" =>
            /\ last'.res = StoredFor(last'.key).has
            /\ last'.res => last'.value = StoredFor(last'.key).value
         ]_vars
    /\ [][last'.op \in {"set", "replace", "remove"} =>
            \A k \in KeySyms \ {last'.key} :
                /\ DictFind(dict', k).found = DictFind(dict, k).found
                /\ DictFind(dict', k).value = DictFind(dict, k).value
         ]_vars
    /\ [][(last'.op \in {"replace", "remove"} /\ ~StoredFor(last'.key).has) =>
            (last'.res = FALSE /\ dict' = dict)
         ]_vars

\* find has just returned the value that a replace stored over the one set
\* first, in a dict that holds another key as well
C24_Witness ==
    /\ last.op = "find" /\ last.res = TRUE /\ last.value = IntVal(2)
    /\ Cardinality(StoredKeys) = 2
    /\ \E i \in DOMAIN dict : dict[i].key = last.key /\ dict[i].value = IntVal(2) /\ i > 1

\* the number of entries that hold a key
KeyCount(entries) == Cardinality({i \in DOMAIN entries : IsItem(entries[i])})

\* C25: set(key, value, insertOnly) returns false exactly when the key is
\* present and insertOnly is true, or the key is absent and no entry is null,
\* and then it changes no entry; otherwise it returns true, and for an absent
\* key the number of entries that hold a key grows by one.
C25_SetResult ==
    [][last'.op = "set" =>
         LET present == \E i \in DOMAIN dict : dict[i].key = last'.key
             full    == \A i \in DOMAIN dict : IsItem(dict[i])
         IN  /\ (last'.res = FALSE) <=>
                    ((present /\ last'.insertOnly) \/ (~present /\ full))
             /\ last'.res = FALSE => dict' = dict
             /\ (last'.res = TRUE /\ ~present) => KeyCount(dict') = KeyCount(dict) + 1
      ]_vars

\* a set without insertOnly of a fourth key has just been refused by a dict
\* whose three entries all hold keys
C25_Witness ==
    /\ last.op = "set" /\ last.res = FALSE /\ ~last.insertOnly
    /\ Len(dict) = 3 /\ KeyCount(dict) = 3
    /\ \A i \in DOMAIN dict : dict[i].key # last.key
    /\ block(last.key) < block(dict[1].key) /\ block(last.key) > block(dict[3].key)

\* C26: the entries of a dict always end with a null entry: no sequence of set
\* calls stores a key into the last entry, so a dict of E entries holds at most
\* E - 1 keys.
C26_TrailingSentinel ==
    Len(dict) > 0 =>
        (~IsItem(dict[Len(dict)]) /\ KeyCount(dict) <= Len(dict) - 1)

\* C26 as amended: a dict of E entries holds at most E keys; while it holds
\* fewer its last entry is null; and set stores into the last entry exactly
\* when that is the only null entry left, which fills the dict.
C26_LastEntryFilledLast ==
    /\ [](KeyCount(dict) <= Len(dict))
    /\ []((Len(dict) > 0 /\ KeyCount(dict) < Len(dict)) => ~IsItem(dict[Len(dict)]))
    /\ [][(last'.op = "set" /\ Len(dict) > 0 /\ Len(dict') = Len(dict)
             /\ ~IsItem(dict[Len(dict)]) /\ IsItem(dict'[Len(dict)])) =>
               (KeyCount(dict) = Len(dict) - 1 /\ KeyCount(dict') = Len(dict))
         ]_vars

\* set has just stored the third key of a dict of three entries, the smallest
\* of its keys, into the last entry
C26_Witness ==
    /\ last.op = "set" /\ last.res = TRUE
    /\ Len(dict) = 3 /\ KeyCount(dict) = 3
    /\ dict[3].key = last.key

\* item k of a vector, counted from 0
ItemAt(all, k) == all[k + 2]

\* C27: insert and append are bounded.  On a full vector they return false
\* and leave it unchanged; otherwise insert(val, pos) with pos <= size() puts
\* val at index pos, moves the former items pos..size-1 up by one in order,
\* leaves the items before pos, and adds one to the size, and append(val) does
\* what insert(val, size()) does.  So the size never exceeds the capacity and
\* the slots beyond the size stay null.
C27_VectorBounded ==
    /\ [](vec # <<>> =>
            /\ VectorSize(vec) >= 0 /\ VectorSize(vec) <= VectorCapacity(vec)
            /\ \A k \in VectorSize(vec)..(VectorCapacity(vec) - 1) : ItemAt(vec, k) = NullVal)
    /\ [][(last'.op \in {"insert", "append"} /\ ~crashed') =>
            LET sz  == VectorSize(vec)
                pos == IF last'.op = "append" THEN sz ELSE last'.pos
            IN  IF sz >= VectorCapacity(vec)
                  THEN last'.res = FALSE /\ vec' = vec
                  ELSE /\ last'.res = TRUE
                       /\ Len(vec') = Len(vec)
                       /\ VectorSize(vec') = sz + 1
                       /\ ItemAt(vec', pos) = last'.val
                       /\ \A k \in 0..(pos - 1) : ItemAt(vec', k) = ItemAt(vec, k)
                       /\ \A k \in pos..(sz - 1) : ItemAt(vec', k + 1) = ItemAt(vec, k)
         ]_vars
    /\ [][\A val \in VecValues :
            (vec # <<>> /\ append(val)) => vec' = VectorInsert(vec, val, VectorSize(vec)).all
         ]_vars

\* a value has just been inserted at the front of a vector that held two
\* others, and filled it
C27_Witness ==
    /\ last.op = "insert" /\ last.res = TRUE /\ last.pos = 0
    /\ VectorCapacity(vec) = 3 /\ VectorSize(vec) = 3
    /\ ItemAt(vec, 0) = IntVal(3) /\ ItemAt(vec, 1) = IntVal(1) /\ ItemAt(vec, 2) = IntVal(2)
    /\ ~crashed

\* the arrays of m that are reachable from the root and from one of their own slots
ArrayCycles(m) ==
    {val \in Reachable(m) :
        /\ Resolves(m, val) /\ val.tag = "Array"
        /\ \E i \in DOMAIN m.blocks[asPos(val)].slots :
             val \in Reach(m, m.blocks[asPos(val)].slots[i], {})}

\* what the source reference val was relocated to
Relocated(pairs, val) == {pr[2] : pr \in {q \in pairs : q[1] = val}}

\* C28: a collection ends on every graph, also when an array is reachable from
\* one of its own slots: it ends without completing only by the abort on a
\* Dict, and when it completes no source block has more than one copy, every
\* reference to a string or an array is relocated to the one copy of its
\* block, and an array on a cycle is relocated to an array on a cycle.
C28_CollectionTerminates ==
    [][last'.op = "gc" =>
         LET pairs == Corresponding(mem[1], mem'[1])
             refs  == {val \in SourceRefs(pairs, mem[1]) : val.tag \in {"String", "Array"}}
         IN  /\ crashed' => \E val \in Reachable(mem[1]) : val.tag = "Dict"
             /\ ~crashed' =>
                   /\ Cardinality(DOMAIN mem'[1].blocks) <= Cardinality(ReachableBlocks(mem[1]))
                   /\ \A val \in refs :
                        /\ Cardinality(Relocated(pairs, val)) = 1
                        /\ \A img \in Relocated(pairs, val) :
                             /\ Resolves(mem'[1], img)
                             /\ val \in ArrayCycles(mem[1]) => img \in ArrayCycles(mem'[1])
                   /\ \A val \in refs, other \in refs :
                        asPos(val) # asPos(other) => Relocated(pairs, val) # Relocated(pairs, other)
      ]_vars

\* a collection has just completed on a root array whose slot holds a second
\* array whose slot holds the root array
C28_Witness ==
    /\ Collected
    /\ Resolves(mem[1], root(1)) /\ root(1).tag = "Array"
    /\ LET inner == mem[1].blocks[asPos(root(1))].slots[1]
       IN  /\ Resolves(mem[1], inner) /\ inner.tag = "Array" /\ inner # root(1)
           /\ mem[1].blocks[asPos(inner)].slots[1] = root(1)
    /\ root(1) \in ArrayCycles(mem[1])

====
